---- MODULE Spec2Model ----
(***************************************************************************)
(* Model of web_dashboard.py: the Flask handlers of the face door opening  *)
(* dashboard (register_user, add_user, delete_user, index, users, logs),   *)
(* the known_faces directory they share and the db_manager rows they       *)
(* read and write.                                                         *)
(*                                                                         *)
(* File names and user names are sequences of tokens.  The tokens "a",     *)
(* "x", "_", "1", "2" are single characters; ".jpg" and "encoding.npy"     *)
(* are the two literal suffixes the code tests for, kept as one token      *)
(* each (neither contains an underscore).                                  *)
(***************************************************************************)
EXTENDS Naturals, Sequences, FiniteSets, TLC

VARIABLES dirExists, files, db, accessLog, addSince, okSince, last, nreq,
          creq, lst

vars == <<dirExists, files, db, accessLog, addSince, okSince, last, nreq,
          creq, lst>>

-----------------------------------------------------------------------------
(* Bounds *)

MaxReq == 3

MaxListFiles == 3

-----------------------------------------------------------------------------
(* Program constants *)

LogLimit == 100

US == "_"

JPG == <<".jpg">>

ENC == <<"_", "encoding.npy">>

ImageSuffix == <<"_", "1", ".jpg">>

DataUrlPrefix == "data:image"

NA == "N/A"

-----------------------------------------------------------------------------
(* Python string operations on token sequences *)

StartsWith(f, p) ==
    /\ Len(f) >= Len(p)
    /\ SubSeq(f, 1, Len(p)) = p

EndsWith(f, s) ==
    /\ Len(f) >= Len(s)
    /\ SubSeq(f, Len(f) - Len(s) + 1, Len(f)) = s

Contains(f, c) == \E i \in 1..Len(f) : f[i] = c

\* str.split(sep): the pieces between the separators, empty pieces kept
RECURSIVE SplitOn(_, _, _)
SplitOn(f, sep, cur) ==
    IF f = <<>> THEN <<cur>>
    ELSE IF Head(f) = sep
         THEN <<cur>> \o SplitOn(Tail(f), sep, <<>>)
         ELSE SplitOn(Tail(f), sep, Append(cur, Head(f)))

Split(f, sep) == SplitOn(f, sep, <<>>)

\* sep.join(parts)
RECURSIVE Join(_, _)
Join(parts, sep) ==
    IF parts = <<>> THEN <<>>
    ELSE IF Len(parts) = 1 THEN parts[1]
    ELSE parts[1] \o <<sep>> \o Join(Tail(parts), sep)

\* str.replace(old, ""): every non-overlapping occurrence, left to right
RECURSIVE RemoveAll(_, _)
RemoveAll(f, old) ==
    IF f = <<>> THEN <<>>
    ELSE IF StartsWith(f, old)
         THEN RemoveAll(SubSeq(f, Len(old) + 1, Len(f)), old)
         ELSE <<Head(f)>> \o RemoveAll(Tail(f), old)

\* str.startswith('.')
StartsWithDot(f) == f # <<>> /\ Head(f) \in {".", ".jpg"}

-----------------------------------------------------------------------------
(* Names, images, files *)

EmptyName == <<>>

Names == { <<"a">>, <<"a", "_", "x">> }

NameInputs == Names \cup {EmptyName}

ImageFile(name) == name \o ImageSuffix

EncodingFile(name) == name \o ENC

\* kinds of decoded upload: not an image, or an image showing 0, 1 or 2
\* faces
ImageContents == {"notimg", "img0", "img1", "img2"}

\* The bytes of a file are a sequence of blocks.  An image of kind k is a
\* header block "hk" followed by its pixel data block "ek"; "z" is a
\* block of bytes that are no image; <<"h1">> alone is the beginning of a
\* one-face image (a cut upload); <<>> is the empty file.
ImageBytes(p) ==
    CASE p = "img0" -> <<"h0", "e0">>
      [] p = "img1" -> <<"h1", "e1">>
      [] p = "img2" -> <<"h2", "e2">>
      [] p = "notimg" -> <<"z">>
      [] p = "trunc1" -> <<"h1">>
      [] OTHER -> <<>>

\* Image.open recognises a header block
IsHeader(h) == h \in {"h0", "h1", "h2"}

\* Image.open(...).convert('RGB'): what the bytes decode to; the decoder
\* reads one image from the start of the file, the header and then the
\* pixel data that belongs to it
Kind(b) ==
    IF Len(b) < 2 THEN "notimg"
    ELSE CASE <<b[1], b[2]>> = <<"h0", "e0">> -> "img0"
           [] <<b[1], b[2]>> = <<"h1", "e1">> -> "img1"
           [] <<b[1], b[2]>> = <<"h2", "e2">> -> "img2"
           [] OTHER -> "notimg"

\* f.write(b) at offset 0 of a file holding `old`: the bytes of `old`
\* beyond len(b) stay
Overlay(old, b) ==
    IF Len(b) >= Len(old) THEN b
    ELSE b \o SubSeq(old, Len(b) + 1, Len(old))

EncContent == <<"enc">>

\* request.form.get('image'): absent, raw base64, a data URL, a data URL
\* without a comma; "badpad" is base64 text that b64decode rejects
Payloads == ImageContents \cup {"badpad"}

ImageInputs ==
    {<<>>} \cup { <<p>> : p \in Payloads }
           \cup { <<DataUrlPrefix, ",", "img1">>, <<DataUrlPrefix>> }

\* face_recognition.face_encodings(image): the number of encodings returned
FaceCount(c) ==
    CASE c = "img0" -> 0
      [] c = "img1" -> 1
      [] c = "img2" -> 2

\* the user-file test of register_user, add_user and delete_user
IsUserFile(f, name) ==
    /\ StartsWith(f, name \o <<US>>)
    /\ (EndsWith(f, JPG) \/ EndsWith(f, ENC))

ExistingFiles(fs, name) == { f \in DOMAIN fs : IsUserFile(f, name) }

WriteFile(fs, f, c) == [g \in (DOMAIN fs) \cup {f} |-> IF g = f THEN c ELSE fs[g]]

RemoveFiles(fs, S) == [g \in (DOMAIN fs) \ S |-> fs[g]]

NoFiles == [g \in {} |-> <<>>]

-----------------------------------------------------------------------------
(* db_manager: rows keyed by name *)

NewRow == [created_at |-> "now", last_seen |-> "null", access_count |-> 0]

NoRows == [n \in {} |-> NewRow]

DbAddUser(d, n) ==
    IF n \in DOMAIN d THEN d
    ELSE [m \in (DOMAIN d) \cup {n} |-> IF m = n THEN NewRow ELSE d[m]]

DbDeleteUser(d, n) == [m \in (DOMAIN d) \ {n} |-> d[m]]

\* get_recent_access_logs(limit): at most the last `limit` rows
DbRecentLogs(lg, limit) ==
    IF Len(lg) <= limit THEN lg
    ELSE SubSeq(lg, Len(lg) - limit + 1, Len(lg))

-----------------------------------------------------------------------------
(* generate_single_user_encoding(name)                                     *)
(* fault "npsave": np.save raises                                          *)

\* variant: reports success without saving the encoding
GenerateEncoding_NoSave(name, fs, fault) ==
    IF ImageFile(name) \notin DOMAIN fs
    THEN [ok |-> FALSE, files |-> fs, fired |-> FALSE]
    ELSE IF Kind(fs[ImageFile(name)]) = "notimg"
    THEN [ok |-> FALSE, files |-> fs, fired |-> FALSE]
    ELSE IF FaceCount(Kind(fs[ImageFile(name)])) = 0
    THEN [ok |-> FALSE, files |-> fs, fired |-> FALSE]
    ELSE [ok |-> TRUE, files |-> fs, fired |-> FALSE]

GenerateEncoding(name, fs, fault) ==
    IF ImageFile(name) \notin DOMAIN fs
    THEN [ok |-> FALSE, files |-> fs, fired |-> FALSE]
    ELSE IF Kind(fs[ImageFile(name)]) = "notimg"
    THEN [ok |-> FALSE, files |-> fs, fired |-> FALSE]
    ELSE IF FaceCount(Kind(fs[ImageFile(name)])) = 0
    THEN [ok |-> FALSE, files |-> fs, fired |-> FALSE]
    ELSE IF fault = "npsave"
    THEN [ok |-> FALSE, files |-> fs, fired |-> TRUE]
    ELSE [ok |-> TRUE,
          files |-> WriteFile(fs, EncodingFile(name), EncContent),
          fired |-> FALSE]

-----------------------------------------------------------------------------
(* register_user                                                           *)
(* faults: "listdir" os.listdir raises; "open" open(path,'wb') raises;     *)
(* "write" f.write raises after open truncated the file; "npsave";         *)
(* "remove" os.remove raises; "db" db_manager.add_user raises              *)

RegFaults == {"none", "listdir", "open", "write", "npsave", "remove", "db"}

\* if image_data.startswith('data:image'): image_data.split(',')[1]
HasDataUrlPrefix(image) == image # <<>> /\ Head(image) = DataUrlPrefix

StripOk(image) == HasDataUrlPrefix(image) => Len(Split(image, ",")) >= 2

StripPrefix(image) ==
    IF HasDataUrlPrefix(image) THEN Split(image, ",")[2] ELSE image

\* base64.b64decode
B64Ok(data) == data = <<>> \/ data[1] # "badpad"

B64Decode(data) == IF data = <<>> THEN <<>> ELSE ImageBytes(data[1])

Outcome(status, msg, dirE, fs, d, wrote, adds, fired) ==
    [status |-> status, msg |-> msg, dirExists |-> dirE, files |-> fs,
     db |-> d, wrote |-> wrote, adds |-> adds, fired |-> fired]

\* variant: no clean-up of the saved image when encoding fails
RegisterEncode_NoCleanup(name, fault, fs1, d) ==
    LET gen == GenerateEncoding(name, fs1, fault) IN
    IF gen.ok
    THEN IF fault = "db"
         THEN Outcome("error", "save_failed", TRUE, gen.files, d,
                      TRUE, 1, TRUE)
         ELSE Outcome("success", "registered", TRUE, gen.files,
                      DbAddUser(d, name), TRUE, 1, FALSE)
    ELSE Outcome("error", "encoding_failed", TRUE, gen.files, d,
                 TRUE, 0, gen.fired)

RegisterEncode(name, fault, fs1, d) ==
    LET gen == GenerateEncoding(name, fs1, fault) IN
    IF gen.ok
    THEN IF fault = "db"
         THEN Outcome("error", "save_failed", TRUE, gen.files, d,
                      TRUE, 1, TRUE)
         ELSE Outcome("success", "registered", TRUE, gen.files,
                      DbAddUser(d, name), TRUE, 1, FALSE)
    ELSE IF ImageFile(name) \in DOMAIN gen.files
         THEN IF fault = "remove"
              THEN Outcome("error", "save_failed", TRUE, gen.files, d,
                           TRUE, 0, TRUE)
              ELSE Outcome("error", "encoding_failed", TRUE,
                           RemoveFiles(gen.files, {ImageFile(name)}), d,
                           TRUE, 0, gen.fired)
         ELSE Outcome("error", "encoding_failed", TRUE, gen.files, d,
                      TRUE, 0, gen.fired)

RegisterSave(name, image, fault, fs, d) ==
    IF ~StripOk(image) \/ ~B64Ok(StripPrefix(image))
    THEN Outcome("error", "save_failed", TRUE, fs, d, FALSE, 0, FALSE)
    ELSE IF fault = "open"
    THEN Outcome("error", "save_failed", TRUE, fs, d, FALSE, 0, TRUE)
    ELSE IF fault = "write"
    THEN Outcome("error", "save_failed", TRUE,
                 WriteFile(fs, ImageFile(name), <<>>), d, TRUE, 0, TRUE)
    ELSE RegisterEncode(name, fault,
             WriteFile(fs, ImageFile(name), B64Decode(StripPrefix(image))), d)

\* variant: no existence check
RegisterUserResult_NoCheck(name, image, fault, dirE, fs, d) ==
    IF name = EmptyName
    THEN Outcome("error", "name_required", dirE, fs, d, FALSE, 0, FALSE)
    ELSE IF image = <<>>
    THEN Outcome("error", "image_required", dirE, fs, d, FALSE, 0, FALSE)
    ELSE IF fault = "listdir"
    THEN Outcome("error", "register_failed", TRUE, fs, d, FALSE, 0, TRUE)
    ELSE RegisterSave(name, image, fault, fs, d)

RegisterUserResult(name, image, fault, dirE, fs, d) ==
    IF name = EmptyName
    THEN Outcome("error", "name_required", dirE, fs, d, FALSE, 0, FALSE)
    ELSE IF image = <<>>
    THEN Outcome("error", "image_required", dirE, fs, d, FALSE, 0, FALSE)
    ELSE IF fault = "listdir"
    THEN Outcome("error", "register_failed", TRUE, fs, d, FALSE, 0, TRUE)
    ELSE IF ExistingFiles(fs, name) # {}
    THEN Outcome("error", "exists", TRUE, fs, d, FALSE, 0, FALSE)
    ELSE RegisterSave(name, image, fault, fs, d)

-----------------------------------------------------------------------------
(* add_user                                                                *)

AddFaults == {"none", "listdir", "db"}

\* variant: db_manager.add_user called outside the try block
AddUserResult_NoCatch(name, fault, dirE, fs, d) ==
    IF name = EmptyName
    THEN Outcome("error", "name_required", dirE, fs, d, FALSE, 0, FALSE)
    ELSE IF fault = "listdir"
    THEN Outcome("error", "add_failed", TRUE, fs, d, FALSE, 0, TRUE)
    ELSE IF ExistingFiles(fs, name) # {}
    THEN Outcome("error", "exists", TRUE, fs, d, FALSE, 0, FALSE)
    ELSE IF fault = "db"
    THEN Outcome("exception", "none", TRUE, fs, d, FALSE, 1, TRUE)
    ELSE Outcome("success", "added", TRUE, fs, DbAddUser(d, name),
                 FALSE, 1, FALSE)

AddUserResult(name, fault, dirE, fs, d) ==
    IF name = EmptyName
    THEN Outcome("error", "name_required", dirE, fs, d, FALSE, 0, FALSE)
    ELSE IF fault = "listdir"
    THEN Outcome("error", "add_failed", TRUE, fs, d, FALSE, 0, TRUE)
    ELSE IF ExistingFiles(fs, name) # {}
    THEN Outcome("error", "exists", TRUE, fs, d, FALSE, 0, FALSE)
    ELSE IF fault = "db"
    THEN Outcome("error", "add_failed", TRUE, fs, d, FALSE, 1, TRUE)
    ELSE Outcome("success", "added", TRUE, fs, DbAddUser(d, name),
                 FALSE, 1, FALSE)

-----------------------------------------------------------------------------
(* delete_user                                                             *)
(* fault "remove": os.remove raises after the files in `part` were removed *)

DelFaults == {"none", "listdir", "remove", "db"}

\* variant: removes the images only, not the encoding
DeleteUserResult_JpgOnly(username, fault, part, dirE, fs, d) ==
    IF dirE /\ fault = "listdir"
    THEN Outcome("error", "exception_text", dirE, fs, d, FALSE, 0, TRUE)
    ELSE IF dirE /\ fault = "remove" /\ ExistingFiles(fs, username) # {}
    THEN Outcome("error", "exception_text", dirE, RemoveFiles(fs, part), d,
                 FALSE, 0, TRUE)
    ELSE LET fs1 == IF dirE
                    THEN RemoveFiles(fs, { f \in ExistingFiles(fs, username) :
                                             EndsWith(f, JPG) })
                    ELSE fs
         IN IF fault = "db"
            THEN Outcome("error", "exception_text", dirE, fs1, d,
                         FALSE, 0, TRUE)
            ELSE Outcome("success", "deleted", dirE, fs1,
                         DbDeleteUser(d, username), FALSE, 0, FALSE)

DeleteUserResult(username, fault, part, dirE, fs, d) ==
    IF dirE /\ fault = "listdir"
    THEN Outcome("error", "exception_text", dirE, fs, d, FALSE, 0, TRUE)
    ELSE IF dirE /\ fault = "remove" /\ ExistingFiles(fs, username) # {}
    THEN Outcome("error", "exception_text", dirE, RemoveFiles(fs, part), d,
                 FALSE, 0, TRUE)
    ELSE LET fs1 == IF dirE
                    THEN RemoveFiles(fs, ExistingFiles(fs, username))
                    ELSE fs
         IN IF fault = "db"
            THEN Outcome("error", "exception_text", dirE, fs1, d,
                         FALSE, 0, TRUE)
            ELSE Outcome("success", "deleted", dirE, fs1,
                         DbDeleteUser(d, username), FALSE, 0, FALSE)

-----------------------------------------------------------------------------
(* get_registered_users                                                    *)

Null == "null"

UserRec(n, trained, row) ==
    [name |-> n, trained |-> trained, created_at |-> row.created_at,
     last_seen |-> row.last_seen, access_count |-> row.access_count]

FileOnlyRow == [created_at |-> Null, last_seen |-> Null, access_count |-> 0]

PutUser(ud, n, rec) ==
    [m \in (DOMAIN ud) \cup {n} |-> IF m = n THEN rec ELSE ud[m]]

SetTrained(ud, n, t) ==
    [m \in DOMAIN ud |-> IF m = n THEN [ud[m] EXCEPT !.trained = t] ELSE ud[m]]

\* username of an image file: '_'.join(file.split('_')[:-1])
JpgUsername(file) ==
    LET parts == Split(file, US)
    IN Join(SubSeq(parts, 1, Len(parts) - 1), US)

\* variant: an encoding file does not mark a user already listed
ProcessFile_EncodingSkipsListed(ud, file, encoding_files) ==
    IF EndsWith(file, JPG) /\ Contains(file, US) /\ ~StartsWithDot(file)
    THEN IF Len(Split(file, US)) >= 2
         THEN LET username == JpgUsername(file)
                  trained == EncodingFile(username) \in encoding_files
              IN IF username \in DOMAIN ud
                 THEN SetTrained(ud, username, trained)
                 ELSE PutUser(ud, username,
                              UserRec(username, trained, FileOnlyRow))
         ELSE ud
    ELSE IF EndsWith(file, ENC)
    THEN LET username == RemoveAll(file, ENC)
         IN IF username \notin DOMAIN ud
            THEN PutUser(ud, username, UserRec(username, TRUE, FileOnlyRow))
            ELSE ud
    ELSE ud

\* one iteration of the loop over os.listdir(KNOWN_FACES_DIR)
ProcessFile(ud, file, encoding_files) ==
    IF EndsWith(file, JPG) /\ Contains(file, US) /\ ~StartsWithDot(file)
    THEN IF Len(Split(file, US)) >= 2
         THEN LET username == JpgUsername(file)
                  trained == EncodingFile(username) \in encoding_files
              IN IF username \in DOMAIN ud
                 THEN SetTrained(ud, username, trained)
                 ELSE PutUser(ud, username,
                              UserRec(username, trained, FileOnlyRow))
         ELSE ud
    ELSE IF EndsWith(file, ENC)
    THEN LET username == RemoveAll(file, ENC)
         IN IF username \notin DOMAIN ud
            THEN PutUser(ud, username, UserRec(username, TRUE, FileOnlyRow))
            ELSE SetTrained(ud, username, TRUE)
    ELSE ud

RECURSIVE ProcessListing(_, _, _)
ProcessListing(ud, order, encoding_files) ==
    IF order = <<>> THEN ud
    ELSE ProcessListing(ProcessFile(ud, Head(order), encoding_files),
                        Tail(order), encoding_files)

\* the orders os.listdir may return the files of a directory in
Orders(S) ==
    { o \in [1..Cardinality(S) -> S] :
        \A i, j \in 1..Cardinality(S) : o[i] = o[j] => i = j }

GetRegisteredUsers(d, dirE, fs, order) ==
    LET fromDb == [n \in DOMAIN d |-> UserRec(n, FALSE, d[n])]
    IN IF dirE
       THEN ProcessListing(fromDb, order,
                           { f \in DOMAIN fs : EndsWith(f, ENC) })
       ELSE fromDb

-----------------------------------------------------------------------------
(* read_access_logs                                                        *)

LogEntry(row) ==
    [timestamp |-> row.timestamp, event |-> row.event_type,
     person |-> IF row.person_name \in {Null, ""} THEN NA
                ELSE row.person_name]

ReadAccessLogs(lg) ==
    LET rows == DbRecentLogs(lg, LogLimit)
    IN [i \in 1..Len(rows) |-> LogEntry(rows[i])]

-----------------------------------------------------------------------------
(* State                                                                   *)
(*  dirExists, files : the known_faces directory and its files             *)
(*  db, accessLog    : db_manager's user rows and access log rows          *)
(*  addSince[n]      : db_manager.add_user(n) calls since the last         *)
(*                     delete_user(n) request                              *)
(*  okSince[n]       : a register_user or add_user for n returned success  *)
(*                     since the last delete_user(n) request               *)
(*  last             : the last sequential request, its response and the   *)
(*                     state it started from                               *)
(*  lst              : the body last computed by index/users/logs          *)
(*  creq             : the concurrent register_user requests               *)

LogRows ==
    { <<>>,
      << [timestamp |-> "t1", event_type |-> "denied", person_name |-> Null],
         [timestamp |-> "t2", event_type |-> "granted",
          person_name |-> "a"] >> }

NoLst == [users |-> <<>>, logs |-> <<>>]

Pre(n) ==
    [dirExists |-> dirExists, files |-> files, db |-> db,
     ok |-> IF n \in Names THEN okSince[n] ELSE FALSE]

NoLast ==
    [op |-> "none", name |-> EmptyName, image |-> <<>>, status |-> "none",
     msg |-> "none", wrote |-> FALSE, adds |-> 0, fired |-> FALSE,
     pre |-> [dirExists |-> FALSE, files |-> NoFiles, db |-> NoRows,
              ok |-> FALSE]]

ConcReqs == {1, 2}

IdleReq ==
    [pc |-> "idle", name |-> EmptyName, image |-> <<>>, sawDir |-> FALSE,
     status |-> "none", msg |-> "none", adds |-> 0, addsAtWrite |-> 0,
     passed |-> FALSE, fdLive |-> FALSE, wrote |-> FALSE,
     hdr |-> "none", buf |-> <<>>, rdLive |-> FALSE, rdBytes |-> <<>>,
     torn |-> FALSE]

Init ==
    /\ dirExists \in BOOLEAN
    /\ files = NoFiles
    /\ db = NoRows
    /\ accessLog \in LogRows
    /\ addSince = [n \in Names |-> 0]
    /\ okSince = [n \in Names |-> FALSE]
    /\ last = NoLast
    /\ nreq = 0
    /\ creq = [r \in ConcReqs |-> IdleReq]
    /\ lst = NoLst

\* the effect of a handler's outcome on the state
Respond(op, name, image, r) ==
    /\ dirExists' = r.dirExists
    /\ files' = r.files
    /\ db' = r.db
    /\ last' = [op |-> op, name |-> name, image |-> image,
                status |-> r.status, msg |-> r.msg, wrote |-> r.wrote,
                adds |-> r.adds, fired |-> r.fired, pre |-> Pre(name)]
    /\ nreq' = nreq + 1

RegisterUser ==
    /\ nreq < MaxReq
    /\ \E name \in NameInputs, image \in ImageInputs, fault \in RegFaults :
         LET r == RegisterUserResult(name, image, fault, dirExists, files, db)
         IN /\ Respond("register_user", name, image, r)
            /\ IF name \in Names
               THEN /\ addSince' = [addSince EXCEPT ![name] = @ + r.adds]
                    /\ okSince' = [okSince EXCEPT
                                     ![name] = @ \/ r.status = "success"]
               ELSE UNCHANGED <<addSince, okSince>>
    /\ UNCHANGED <<accessLog, creq, lst>>

AddUser ==
    /\ nreq < MaxReq
    /\ \E name \in NameInputs, fault \in AddFaults :
         LET r == AddUserResult(name, fault, dirExists, files, db)
         IN /\ Respond("add_user", name, <<>>, r)
            /\ IF name \in Names
               THEN /\ addSince' = [addSince EXCEPT ![name] = @ + r.adds]
                    /\ okSince' = [okSince EXCEPT
                                     ![name] = @ \/ r.status = "success"]
               ELSE UNCHANGED <<addSince, okSince>>
    /\ UNCHANGED <<accessLog, creq, lst>>

DeleteUser ==
    /\ nreq < MaxReq
    /\ \E username \in Names, fault \in DelFaults :
       \E part \in SUBSET ExistingFiles(files, username) :
         /\ part # ExistingFiles(files, username)
              \/ ~(dirExists /\ fault = "remove")
         /\ (dirExists /\ fault = "remove") \/ part = {}
         /\ LET r == DeleteUserResult(username, fault, part,
                                      dirExists, files, db)
            IN Respond("delete_user", username, <<>>, r)
         /\ addSince' = [addSince EXCEPT ![username] = 0]
         /\ okSince' = [okSince EXCEPT ![username] = FALSE]
    /\ UNCHANGED <<accessLog, creq, lst>>

\* index and users: get_registered_users(), then render_template
PageFaults == {"none", "db", "listdir"}

PageResult(fault, order) ==
    IF fault = "db" \/ (fault = "listdir" /\ dirExists)
    THEN [status |-> "exception", users |-> lst.users, fired |-> TRUE]
    ELSE [status |-> "html",
          users |-> GetRegisteredUsers(db, dirExists, files, order),
          fired |-> FALSE]

PageRespond(op, r) ==
    /\ lst' = [lst EXCEPT !.users = r.users]
    /\ last' = [op |-> op, name |-> EmptyName, image |-> <<>>,
                status |-> r.status, msg |-> "none",
                wrote |-> FALSE, adds |-> 0, fired |-> r.fired,
                pre |-> Pre(EmptyName)]
    /\ nreq' = nreq + 1

Index ==
    /\ nreq < MaxReq
    /\ \E fault \in PageFaults, order \in Orders(DOMAIN files) :
         PageRespond("index", PageResult(fault, order))
    /\ UNCHANGED <<dirExists, files, db, accessLog, addSince, okSince, creq>>

Users ==
    /\ nreq < MaxReq
    /\ \E fault \in PageFaults, order \in Orders(DOMAIN files) :
         PageRespond("users", PageResult(fault, order))
    /\ UNCHANGED <<dirExists, files, db, accessLog, addSince, okSince, creq>>

LogFaults == {"none", "db"}

Logs ==
    /\ nreq < MaxReq
    /\ \E fault \in LogFaults :
         /\ lst' = IF fault = "db" THEN lst
                   ELSE [lst EXCEPT !.logs = ReadAccessLogs(accessLog)]
         /\ last' = [op |-> "logs", name |-> EmptyName, image |-> <<>>,
                     status |-> IF fault = "db" THEN "exception" ELSE "json",
                     msg |-> "none", wrote |-> FALSE, adds |-> 0,
                     fired |-> fault = "db", pre |-> Pre(EmptyName)]
    /\ nreq' = nreq + 1
    /\ UNCHANGED <<dirExists, files, db, accessLog, addSince, okSince, creq>>

Next ==
    \/ RegisterUser
    \/ AddUser
    \/ DeleteUser
    \/ Index
    \/ Users
    \/ Logs

Spec == Init /\ [][Next]_vars

-----------------------------------------------------------------------------
(* Concurrent register_user requests: one step per filesystem or database  *)
(* call of register_user and generate_single_user_encoding.  Nothing is    *)
(* locked between the steps.                                               *)

ConcNames == { <<"a">> }

\* no image field, bytes that are no image, a data URL with nothing after
\* the comma (0 bytes), the beginning of a one-face image, images with no
\* face and with one face
ConcImages ==
    { <<>>, <<"notimg">>, <<DataUrlPrefix, ",">>, <<"trunc1">>,
      <<"img0">>, <<"img1">> }

Finish(r, status, msg) ==
    [creq EXCEPT ![r].pc = "done", ![r].status = status, ![r].msg = msg]

Goto(r, pc) == [creq EXCEPT ![r].pc = pc]

\* request.form.get and the two validations
CStart(r) ==
    /\ creq[r].pc = "idle"
    /\ \E name \in ConcNames, image \in ConcImages :
         creq' = IF image = <<>>
                 THEN [creq EXCEPT ![r].pc = "done", ![r].name = name,
                                   ![r].status = "error",
                                   ![r].msg = "image_required"]
                 ELSE [creq EXCEPT ![r].pc = "dir_exists", ![r].name = name,
                                   ![r].image = image]
    /\ UNCHANGED <<dirExists, files, db, accessLog, addSince, okSince,
                   last, nreq, lst>>

\* os.path.exists(KNOWN_FACES_DIR)
CDirExists(r) ==
    /\ creq[r].pc = "dir_exists"
    /\ creq' = [creq EXCEPT ![r].sawDir = dirExists,
                            ![r].pc = IF dirExists THEN "listdir"
                                      ELSE "makedirs"]
    /\ UNCHANGED <<dirExists, files, db, accessLog, addSince, okSince,
                   last, nreq, lst>>

\* os.makedirs(KNOWN_FACES_DIR): FileExistsError if it exists by now
CMakedirs(r) ==
    /\ creq[r].pc = "makedirs"
    /\ IF dirExists
       THEN /\ creq' = Finish(r, "error", "register_failed")
            /\ UNCHANGED dirExists
       ELSE /\ creq' = Goto(r, "listdir")
            /\ dirExists' = TRUE
    /\ UNCHANGED <<files, db, accessLog, addSince, okSince, last, nreq, lst>>

\* the existence check
CListdir(r) ==
    /\ creq[r].pc = "listdir"
    /\ creq' = IF ExistingFiles(files, creq[r].name) # {}
               THEN Finish(r, "error", "exists")
               ELSE [creq EXCEPT ![r].pc = "open", ![r].passed = TRUE]
    /\ UNCHANGED <<dirExists, files, db, accessLog, addSince, okSince,
                   last, nreq, lst>>

\* strip the data URL prefix, b64decode, open(image_path, "wb"): the file
\* is created, or truncated when it exists, and is empty until the write;
\* an empty file is not an image
COpen(r) ==
    /\ creq[r].pc = "open"
    /\ IF ~StripOk(creq[r].image) \/ ~B64Ok(StripPrefix(creq[r].image))
       THEN /\ creq' = Finish(r, "error", "save_failed")
            /\ UNCHANGED files
       ELSE /\ files' = WriteFile(files, ImageFile(creq[r].name), <<>>)
            /\ creq' = [creq EXCEPT ![r].pc = "write", ![r].fdLive = TRUE]
    /\ UNCHANGED <<dirExists, db, accessLog, addSince, okSince, last, nreq,
                   lst>>

\* f.write(image_bytes) and the close at the end of the with block: the
\* bytes go to the file opened by COpen; when that file was removed in
\* between (fdLive is FALSE) they go to a file without a name, and no
\* <name>_1.jpg appears.  The bytes are written from offset 0; what
\* another writer has put beyond their length since the last open stays.
CWrite(r) ==
    /\ creq[r].pc = "write"
    /\ files' = IF creq[r].fdLive
                THEN WriteFile(files, ImageFile(creq[r].name),
                               Overlay(files[ImageFile(creq[r].name)],
                                       B64Decode(StripPrefix(creq[r].image))))
                ELSE files
    /\ creq' = [creq EXCEPT ![r].pc = "gen_exists",
                            ![r].wrote = creq[r].fdLive,
                            ![r].fdLive = FALSE,
                            ![r].addsAtWrite = addSince[creq[r].name]]
    /\ UNCHANGED <<dirExists, db, accessLog, addSince, okSince, last, nreq,
                   lst>>

\* generate_single_user_encoding: os.path.exists(image_path)
CGenExists(r) ==
    /\ creq[r].pc = "gen_exists"
    /\ creq' = IF ImageFile(creq[r].name) \in DOMAIN files
               THEN Goto(r, "gen_open")
               ELSE Goto(r, "rollback_exists")
    /\ UNCHANGED <<dirExists, files, db, accessLog, addSince, okSince,
                   last, nreq, lst>>

\* Image.open(image_path): opens the file and reads its header; raises
\* when the file is gone or does not begin with an image header.  The
\* pixel data is not decoded yet and the file stays open.  The header is
\* read through a buffered reader, which fetches a whole buffer from the
\* file: buf is what the file held at this read.
CGenOpen(r) ==
    /\ creq[r].pc = "gen_open"
    /\ creq' = IF /\ ImageFile(creq[r].name) \in DOMAIN files
                  /\ files[ImageFile(creq[r].name)] # <<>>
                  /\ IsHeader(files[ImageFile(creq[r].name)][1])
               THEN [creq EXCEPT
                       ![r].pc = "gen_convert",
                       ![r].hdr = files[ImageFile(creq[r].name)][1],
                       ![r].buf = files[ImageFile(creq[r].name)],
                       ![r].rdLive = TRUE]
               ELSE Goto(r, "rollback_exists")
    /\ UNCHANGED <<dirExists, files, db, accessLog, addSince, okSince,
                   last, nreq, lst>>

\* the bytes the open image file of r holds now: those of <name>_1.jpg, or
\* those it held when it was removed
ReadBytes(r) ==
    IF creq[r].rdLive THEN files[ImageFile(creq[r].name)]
    ELSE creq[r].rdBytes

\* what convert decodes from the bytes b that follow the header read by
\* Image.open; no image when the data is missing or is not that of the
\* header
ConvertKind(hdr, b) ==
    IF Len(b) < 2 THEN "notimg"
    ELSE Kind(<<hdr>> \o SubSeq(b, 2, Len(b)))

\* image.convert('RGB'), np.array, face_encodings: the pixel data is
\* decoded now with the header read by CGenOpen.  Whether it comes from the
\* file as it is now or from the buffer filled at Image.open depends on
\* the size of the image against the size of the read buffer, which the
\* source does not fix: an upload smaller than the buffer was fetched whole
\* by the header read, a larger one is read from the file here.  torn
\* records that an image was decoded although the file no longer begins
\* with the header that was read.
CGenConvert(r) ==
    /\ creq[r].pc = "gen_convert"
    /\ \E buffered \in BOOLEAN :
         LET cur == ReadBytes(r)
             k == ConvertKind(creq[r].hdr,
                              IF buffered THEN creq[r].buf ELSE cur)
         IN creq' = [creq EXCEPT
                       ![r].pc = IF k # "notimg" /\ FaceCount(k) > 0
                                 THEN "gen_save" ELSE "rollback_exists",
                       ![r].hdr = "none",
                       ![r].buf = <<>>,
                       ![r].rdLive = FALSE,
                       ![r].rdBytes = <<>>,
                       ![r].torn = /\ k # "notimg"
                                   /\ \/ cur = <<>>
                                      \/ cur[1] # creq[r].hdr]
    /\ UNCHANGED <<dirExists, files, db, accessLog, addSince, okSince,
                   last, nreq, lst>>

\* np.save(encoding_path, encoding)
CGenSave(r) ==
    /\ creq[r].pc = "gen_save"
    /\ files' = WriteFile(files, EncodingFile(creq[r].name), EncContent)
    /\ creq' = Goto(r, "db_add")
    /\ UNCHANGED <<dirExists, db, accessLog, addSince, okSince, last, nreq,
                   lst>>

\* variant: add_user is skipped for a name that already has a row
CDbAdd_IfAbsent(r) ==
    /\ creq[r].pc = "db_add"
    /\ db' = DbAddUser(db, creq[r].name)
    /\ addSince' = IF creq[r].name \in DOMAIN db THEN addSince
                   ELSE [addSince EXCEPT ![creq[r].name] = @ + 1]
    /\ okSince' = [okSince EXCEPT ![creq[r].name] = TRUE]
    /\ creq' = [creq EXCEPT ![r].pc = "done", ![r].status = "success",
                            ![r].msg = "registered",
                            ![r].adds = IF creq[r].name \in DOMAIN db
                                        THEN 0 ELSE 1]
    /\ UNCHANGED <<dirExists, files, accessLog, last, nreq, lst>>

\* db_manager.add_user(user_name) and the success response
CDbAdd(r) ==
    /\ creq[r].pc = "db_add"
    /\ db' = DbAddUser(db, creq[r].name)
    /\ addSince' = [addSince EXCEPT ![creq[r].name] = @ + 1]
    /\ okSince' = [okSince EXCEPT ![creq[r].name] = TRUE]
    /\ creq' = [creq EXCEPT ![r].pc = "done", ![r].status = "success",
                            ![r].msg = "registered", ![r].adds = 1]
    /\ UNCHANGED <<dirExists, files, accessLog, last, nreq, lst>>

\* the clean-up: os.path.exists(image_path)
CRollbackExists(r) ==
    /\ creq[r].pc = "rollback_exists"
    /\ creq' = IF ImageFile(creq[r].name) \in DOMAIN files
               THEN Goto(r, "remove")
               ELSE Finish(r, "error", "encoding_failed")
    /\ UNCHANGED <<dirExists, files, db, accessLog, addSince, okSince,
                   last, nreq, lst>>

\* os.remove(image_path): FileNotFoundError if it is gone by now; a request
\* that has the file open keeps writing to, or reading from, the removed
\* file (with two requests the removed file has no writer left)
Unlinked(r) ==
    [q \in ConcReqs |->
       IF q # r /\ creq[q].name = creq[r].name
       THEN [creq[q] EXCEPT
               !.fdLive = FALSE,
               !.rdLive = FALSE,
               !.rdBytes = IF creq[q].rdLive
                           THEN files[ImageFile(creq[q].name)]
                           ELSE creq[q].rdBytes]
       ELSE creq[q]]

CRemove(r) ==
    /\ creq[r].pc = "remove"
    /\ IF ImageFile(creq[r].name) \in DOMAIN files
       THEN /\ files' = RemoveFiles(files, {ImageFile(creq[r].name)})
            /\ creq' = [Unlinked(r) EXCEPT ![r].pc = "done",
                                           ![r].status = "error",
                                           ![r].msg = "encoding_failed"]
       ELSE /\ creq' = Finish(r, "error", "save_failed")
            /\ UNCHANGED files
    /\ UNCHANGED <<dirExists, db, accessLog, addSince, okSince, last, nreq,
                   lst>>

ConcNext ==
    \/ \E r \in ConcReqs : CStart(r)
    \/ \E r \in ConcReqs : CDirExists(r)
    \/ \E r \in ConcReqs : CMakedirs(r)
    \/ \E r \in ConcReqs : CListdir(r)
    \/ \E r \in ConcReqs : COpen(r)
    \/ \E r \in ConcReqs : CWrite(r)
    \/ \E r \in ConcReqs : CGenExists(r)
    \/ \E r \in ConcReqs : CGenOpen(r)
    \/ \E r \in ConcReqs : CGenConvert(r)
    \/ \E r \in ConcReqs : CGenSave(r)
    \/ \E r \in ConcReqs : CDbAdd(r)
    \/ \E r \in ConcReqs : CRollbackExists(r)
    \/ \E r \in ConcReqs : CRemove(r)

ConcSpec == Init /\ [][ConcNext]_vars

-----------------------------------------------------------------------------
(* The listing on any directory content and any rows: known_faces and the  *)
(* database are shared with the door device, so the files and rows that    *)
(* index and users meet need not come from this dashboard.                 *)

ListFileNames ==
    { <<"a", "_", "1", ".jpg">>,
      <<"a", "_", "2", ".jpg">>,
      <<"a", "_", "encoding.npy">>,
      <<"a", "_", "x", "_", "1", ".jpg">>,
      <<"a", "_", "x", "_", "encoding.npy">>,
      <<"a", ".jpg">>,
      <<".", "a", "_", "1", ".jpg">>,
      <<"x">> }

ListContent(f) ==
    IF EndsWith(f, ENC) THEN EncContent ELSE ImageBytes("img1")

ListRows ==
    { [created_at |-> "t1", last_seen |-> Null, access_count |-> 0],
      [created_at |-> "t1", last_seen |-> "t2", access_count |-> 5] }

ListDbs ==
    UNION { [D -> ListRows] : D \in SUBSET Names }

ListInit ==
    /\ \E F \in SUBSET ListFileNames :
         /\ Cardinality(F) <= MaxListFiles
         /\ files = [f \in F |-> ListContent(f)]
    /\ dirExists \in BOOLEAN
    /\ files # NoFiles => dirExists
    /\ db \in ListDbs
    /\ accessLog = <<>>
    /\ addSince = [n \in Names |-> 0]
    /\ okSince = [n \in Names |-> FALSE]
    /\ last = NoLast
    /\ nreq = 0
    /\ creq = [r \in ConcReqs |-> IdleReq]
    /\ lst = NoLst

ListNext ==
    \/ Index
    \/ Users

ListSpec == ListInit /\ [][ListNext]_vars

-----------------------------------------------------------------------------
(* Properties                                                              *)

\* the request's image decodes to an image of kind c
Decodes(image, c) ==
    /\ image # <<>>
    /\ StripOk(image)
    /\ B64Ok(StripPrefix(image))
    /\ Kind(B64Decode(StripPrefix(image))) = c

\* last is a register_user request for a name that had no user file
RegisteredNew ==
    /\ last.op = "register_user"
    /\ last.name \in Names
    /\ \A f \in DOMAIN last.pre.files :
         ~(StartsWith(f, last.name \o <<"_">>)
           /\ (EndsWith(f, <<".jpg">>) \/ EndsWith(f, <<"_", "encoding.npy">>)))

UserFilesNow(n) ==
    { f \in DOMAIN files :
        /\ StartsWith(f, n \o <<"_">>)
        /\ (EndsWith(f, <<".jpg">>) \/ EndsWith(f, <<"_", "encoding.npy">>)) }

\* C1: register_user for a name without files, with an image showing
\* exactly one face and no filesystem or database call failing, returns
\* success; afterwards the name's files are exactly <name>_1.jpg and
\* <name>_encoding.npy, and the request called db_manager.add_user once.
C1_RegisterNewUser ==
    (RegisteredNew /\ Decodes(last.image, "img1") /\ ~last.fired)
    => /\ last.status = "success"
       /\ UserFilesNow(last.name)
            = {last.name \o <<"_", "1", ".jpg">>,
               last.name \o <<"_", "encoding.npy">>}
       /\ files[last.name \o <<"_", "1", ".jpg">>] = <<"h1", "e1">>
       /\ last.adds = 1
       /\ last.name \in DOMAIN db

C1_Witness ==
    /\ RegisteredNew
    /\ Decodes(last.image, "img1")
    /\ HasDataUrlPrefix(last.image)
    /\ ~last.fired
    /\ last.status = "success"

\* C2: register_user for a name that already has a user file returns error
\* for every image, present or not, and leaves files and rows as they were.
C2_ExistingNameRejected ==
    (/\ last.op = "register_user"
     /\ last.name \in Names
     /\ \E f \in DOMAIN last.pre.files :
          /\ StartsWith(f, last.name \o <<"_">>)
          /\ (EndsWith(f, <<".jpg">>) \/ EndsWith(f, <<"_", "encoding.npy">>)))
    => /\ last.status = "error"
       /\ files = last.pre.files
       /\ db = last.pre.db
       /\ last.adds = 0

C2_Witness ==
    /\ last.op = "register_user"
    /\ last.name \in Names
    /\ Decodes(last.image, "img1")
    /\ last.name \o <<"_", "1", ".jpg">> \in DOMAIN last.pre.files
    /\ last.msg = "exists"

\* C3: register_user for a name without files, with an image showing no
\* face and no filesystem call failing, returns error; afterwards neither
\* <name>_1.jpg nor <name>_encoding.npy exists and add_user was not called.
C3_ZeroFacesRolledBack ==
    (RegisteredNew /\ Decodes(last.image, "img0") /\ ~last.fired)
    => /\ last.status = "error"
       /\ last.name \o <<"_", "1", ".jpg">> \notin DOMAIN files
       /\ last.name \o <<"_", "encoding.npy">> \notin DOMAIN files
       /\ last.adds = 0
       /\ db = last.pre.db

C3_Witness ==
    /\ RegisteredNew
    /\ Decodes(last.image, "img0")
    /\ ~last.fired
    /\ last.wrote
    /\ last.msg = "encoding_failed"

\* C4: when delete_user(u) returns success, no file starts with u_ and ends
\* in .jpg or _encoding.npy and u has no row; delete_user for a user with
\* no such file and no row returns success and changes nothing.
C4_DeleteRemovesAndIsIdempotent ==
    last.op = "delete_user"
    => /\ last.status = "success"
          => /\ UserFilesNow(last.name) = {}
             /\ last.name \notin DOMAIN db
       /\ (/\ ~last.fired
           /\ last.name \notin DOMAIN last.pre.db
           /\ \A f \in DOMAIN last.pre.files :
                ~(StartsWith(f, last.name \o <<"_">>)
                  /\ (EndsWith(f, <<".jpg">>)
                      \/ EndsWith(f, <<"_", "encoding.npy">>))))
          => /\ last.status = "success"
             /\ files = last.pre.files
             /\ db = last.pre.db
             /\ dirExists = last.pre.dirExists

C4_Witness ==
    /\ last.op = "delete_user"
    /\ last.status = "success"
    /\ last.name \in DOMAIN last.pre.db
    /\ last.name \o <<"_", "1", ".jpg">> \in DOMAIN last.pre.files
    /\ last.name \o <<"_", "encoding.npy">> \in DOMAIN last.pre.files

\* the idempotent case of C4: a delete_user of a user with neither files
\* nor row, after an earlier request
C4_IdempotentWitness ==
    /\ last.op = "delete_user"
    /\ last.status = "success"
    /\ nreq >= 2
    /\ last.pre.dirExists
    /\ last.name \notin DOMAIN last.pre.db
    /\ last.name \o <<"_", "1", ".jpg">> \notin DOMAIN last.pre.files
    /\ last.pre.files # NoFiles

-----------------------------------------------------------------------------
\* <name>_encoding.npy exists
HasEncoding(n) == n \o <<"_", "encoding.npy">> \in DOMAIN files

\* a file named for n by the convention exists: <n>_<index>.jpg or
\* <n>_encoding.npy
OnDisk(n) ==
    \/ HasEncoding(n)
    \/ \E i \in {"1", "2"} : n \o <<"_", i, ".jpg">> \in DOMAIN files

Listed == last.op \in {"index", "users"} /\ last.status = "html"

\* C5: get_registered_users returns one entry per name, for the names of
\* the rows and of the files; a name with a row keeps the row's
\* created_at, last_seen and access_count and is trained exactly when
\* <name>_encoding.npy exists (so never when it has no file); a name with
\* files but no row has null created_at and last_seen and is trained
\* exactly when its encoding file exists; in whatever order the directory
\* lists its files.
C5_MergedListing ==
    Listed =>
      /\ DOMAIN lst.users = (DOMAIN db) \cup { n \in Names : OnDisk(n) }
      /\ \A n \in DOMAIN lst.users :
           /\ lst.users[n].name = n
           /\ lst.users[n].trained = HasEncoding(n)
           /\ ~OnDisk(n) => ~lst.users[n].trained
           /\ IF n \in DOMAIN db
              THEN /\ lst.users[n].created_at = db[n].created_at
                   /\ lst.users[n].last_seen = db[n].last_seen
                   /\ lst.users[n].access_count = db[n].access_count
              ELSE /\ lst.users[n].created_at = "null"
                   /\ lst.users[n].last_seen = "null"

\* a listing that met a row without files, a row with image and encoding,
\* and nothing else
C5_Witness ==
    /\ Listed
    /\ DOMAIN db = Names
    /\ db[<<"a">>].access_count = 5
    /\ DOMAIN files = { <<"a", "_", "1", ".jpg">>,
                        <<"a", "_", "encoding.npy">> }
    /\ lst.users[<<"a">>].trained
    /\ ~lst.users[<<"a", "_", "x">>].trained

\* a listing that met an encoding file with neither image nor row
C5_EncodingOnlyWitness ==
    /\ Listed
    /\ <<"a", "_", "x">> \notin DOMAIN db
    /\ <<"a", "_", "x", "_", "encoding.npy">> \in DOMAIN files
    /\ <<"a", "_", "x", "_", "1", ".jpg">> \notin DOMAIN files
    /\ lst.users[<<"a", "_", "x">>].trained

-----------------------------------------------------------------------------
\* C6: once a register_user or add_user for n has returned success, every
\* later register_user or add_user for n returns error until delete_user(n)
\* is requested, and db_manager.add_user(n) is not called twice without a
\* delete_user(n) in between.
C6_NameUniqueAcrossPaths ==
    (last.op \in {"register_user", "add_user"}
     /\ last.name \in Names /\ last.pre.ok)
    => /\ last.status = "error"
       /\ last.adds = 0

\* C7: a register_user request that wrote <name>_1.jpg and returns error
\* leaves no <name>_1.jpg behind.
C7_FailureRollsBackImage ==
    (last.op = "register_user" /\ last.wrote /\ last.status = "error")
    => last.name \o <<"_", "1", ".jpg">> \notin DOMAIN files

\* C8 as stated: on every route, a filesystem or db_manager failure during
\* the request is answered with a JSON body of status "error".
C8_EveryRouteCatches ==
    /\ last.status # "exception"
    /\ last.fired => last.status = "error"

\* C8 as amended: register_user, add_user and delete_user answer every
\* filesystem or db_manager failure with status "error" and let no
\* exception out; index, users and logs have no handler of their own, and
\* a failure of db_manager or of the directory listing leaves them as an
\* exception.
C8_MutatingRoutesCatch ==
    /\ last.op \in {"register_user", "add_user", "delete_user"}
       => /\ last.status \in {"success", "error"}
          /\ last.fired => last.status = "error"
    /\ last.op \in {"index", "users", "logs"}
       => /\ last.status \in {"html", "json", "exception"}
          /\ last.fired <=> last.status = "exception"

C8_Witness ==
    /\ last.op = "delete_user"
    /\ last.fired
    /\ last.status = "error"
    /\ last.name \in DOMAIN db

\* C10: delete_user(u) leaves <v>_1.jpg and <v>_encoding.npy of every other
\* registered name v as they were.
C10_DeleteTouchesOnlyItsUser ==
    last.op = "delete_user"
    => \A v \in (DOMAIN last.pre.db) \ {last.name} :
         \A f \in {v \o <<"_", "1", ".jpg">>, v \o <<"_", "encoding.npy">>} :
           /\ f \in DOMAIN files <=> f \in DOMAIN last.pre.files
           /\ f \in DOMAIN files => files[f] = last.pre.files[f]

-----------------------------------------------------------------------------
OneFace(r) == Decodes(creq[r].image, "img1")

\* C9: nothing orders the existence check, the write and the add_user call
\* of two register_user requests for one name: a request that has passed
\* the existence check is never answered "already exists" afterwards, and
\* every request that returns success has called db_manager.add_user
\* itself, so when both return success add_user(name) was called twice.
C9_UnguardedRace ==
    /\ \A r \in ConcReqs : creq[r].passed => creq[r].msg # "exists"
    /\ \A n \in ConcNames :
         addSince[n] = Cardinality({ r \in ConcReqs :
                                       /\ creq[r].name = n
                                       /\ creq[r].status = "success" })
    /\ \A r1, r2 \in ConcReqs :
         (/\ r1 # r2
          /\ creq[r1].name = creq[r2].name
          /\ creq[r1].status = "success" /\ creq[r2].status = "success")
         => /\ addSince[creq[r1].name] = 2
            /\ creq[r1].adds = 1 /\ creq[r2].adds = 1

\* both requests wrote <name>_1.jpg before either called add_user, both
\* returned success
C9_Witness ==
    /\ creq[1].pc = "done" /\ creq[2].pc = "done"
    /\ creq[1].name = creq[2].name
    /\ creq[1].passed /\ creq[2].passed
    /\ creq[1].wrote /\ creq[2].wrote
    /\ creq[1].addsAtWrite = 0 /\ creq[2].addsAtWrite = 0
    /\ creq[1].status = "success" /\ creq[2].status = "success"
    /\ addSince[creq[1].name] = 2

\* two requests that passed the existence check with a one-face image and
\* both returned error: the second open emptied the image under the first
C9_TruncationWitness ==
    /\ creq[1].pc = "done" /\ creq[2].pc = "done"
    /\ creq[1].passed /\ creq[2].passed
    /\ OneFace(1) /\ OneFace(2)
    /\ creq[1].status = "error" /\ creq[2].status = "error"
    /\ addSince[<<"a">>] = 0
    /\ files = NoFiles

\* a request whose own upload is 0 bytes or a cut image returns success:
\* it wrote after the other request, whose one-face image stayed in the
\* file, and after add_user had been called once
C9_OverlayWitness ==
    /\ creq[1].pc = "done" /\ creq[2].pc = "done"
    /\ Kind(B64Decode(StripPrefix(creq[1].image))) = "notimg"
    /\ OneFace(2)
    /\ creq[1].wrote /\ creq[1].addsAtWrite = 1
    /\ creq[1].status = "success" /\ creq[2].status = "success"
    /\ addSince[<<"a">>] = 2

\* request 1 read the header of its one-face image, request 2 then wrote
\* its upload of no image at offset 0 of the same file, and the convert of
\* request 1 still decoded one face from the pixel data left in the file;
\* request 1 returns success, request 2 finds no image in the file
C9_SplitReadWitness ==
    /\ creq[1].pc = "done" /\ creq[2].pc = "done"
    /\ creq[1].passed /\ creq[2].passed
    /\ OneFace(1)
    /\ creq[2].image = <<"notimg">>
    /\ creq[2].wrote
    /\ creq[1].torn
    /\ creq[1].status = "success" /\ creq[2].status = "error"
    /\ addSince[<<"a">>] = 1

\* request 1 read the header of its one-face image through a buffer that
\* took the whole upload, request 2 then truncated the file with
\* open(..., 'wb'), and the convert of request 1 still decoded one face
C9_BufferedReadWitness ==
    /\ creq[1].pc = "gen_save"
    /\ OneFace(1)
    /\ creq[1].torn
    /\ creq[2].pc = "write"
    /\ files[ImageFile(<<"a">>)] = <<>>

====
